---- MODULE Spec2Model ----
(***************************************************************************)
(* A model of the rate converter rates(), the tag normaliser get_rType()   *)
(* and the annuity rate solver solve_r() of business.py.                   *)
(*                                                                         *)
(* Numbers.  Python floats are modelled as exact rationals [n, d] until    *)
(* the code rounds them; round(x, 10) is modelled as round-half-even to    *)
(* Places decimal places, and a rounded value is the integer count of      *)
(* units 1/Unit, Unit = 10^Places.  Places is smaller than the code's 10   *)
(* because TLC's integers are 32 bits wide; every formula below is stated  *)
(* in units, so it reads the same at any number of places.                 *)
(* exp and log are evaluated by their series in the same fixed point.      *)
(*                                                                         *)
(* Absent arguments.  The code's default for an omitted argument is False, *)
(* and False == 0 in Python, so an omitted number is the integer 0 here.   *)
(***************************************************************************)
EXTENDS Integers, Sequences, FiniteSets, TLC

\* ----------------------------------------------------------------- bounds
\* decimal places a rounded value keeps in the model (the code keeps 10)
Places == 3
\* largest |pv| and |fv| the calls are made with (a payment is -1, 0 or 1)
MaxAmt == 2
\* longest payment list a caller passes, and the largest repetition count t
MaxList == 2
MaxT == 2
\* longest cash-flow sequence a call assembles
MaxCoeffs == MaxList + 2
\* resolution of a root returned by the root finder: 1/RootScale
RootScale == 10
\* the input rates of rates() are k/RateGrid for k in RateLo..RateHi
RateGrid == 10
RateHi == 20
\* largest frequency multiplier q_per_t a call is made with
MaxFreq == 2
\* terms of the exp and log series that are summed
SeriesTerms == 40

\* ---------------------------------------------------------------- numbers
RECURSIVE Pow(_, _)
Pow(b, e) == IF e = 0 THEN 1 ELSE b * Pow(b, e - 1)

Unit == Pow(10, Places)

Abs(x) == IF x < 0 THEN -x ELSE x
Sign(x) == IF x < 0 THEN -1 ELSE IF x > 0 THEN 1 ELSE 0

Rat(n, d) == [n |-> n, d |-> d]

\* num/den rounded to the nearest integer, ties to the even one: what Python's
\* round() does with the exact value it is given.  den # 0.
RoundHalfEven(num, den) ==
    LET n == IF den < 0 THEN -num ELSE num
        d == Abs(den)
        q == n \div d
        r == n % d
    IN  IF 2 * r < d THEN q
        ELSE IF 2 * r > d THEN q + 1
        ELSE IF q % 2 = 0 THEN q ELSE q + 1

\* round(x, 10) of the rational x, in units
Round10(x) == IF x.d = Unit THEN x.n ELSE RoundHalfEven(x.n * Unit, x.d)

\* a * b / s to the nearest integer for s > 0 and a divisor h of s, computed
\* in pieces that stay within 32 bits whenever the result does and s * s / h
\* does: a = a1 * s + a01 * h + a00 and b = b1 * s + b0
MulDiv(a, b, s, h) ==
    LET a1 == a \div s
        a01 == (a % s) \div h
        a00 == (a % s) % h
        b1 == b \div s
        b0 == b % s
        low == s \div h
        q1 == (a01 * b0) \div low
        r1 == (a01 * b0) % low
    IN  a * b1 + a1 * b0 + q1 + ((r1 * h + a00 * b0 + (s \div 2)) \div s)

MulUnit(a, b) == MulDiv(a, b, Unit, 1)

\* math.exp(x) - 1 for x in units, in units: the series sum x^k / k! for
\* x >= 0, and 1 / exp(-x) - 1 for x < 0.  Below -3 * Places the exponential
\* is less than half a unit and the result rounds to -1.
RECURSIVE ExpSeries(_, _, _, _)
ExpSeries(x, k, term, acc) ==
    IF k > SeriesTerms \/ term = 0 THEN acc
    ELSE LET next == RoundHalfEven(MulUnit(term, x), k + 1)
         IN  ExpSeries(x, k + 1, next, acc + term)

ExpM1(x) ==
    IF x >= 0 THEN ExpSeries(x, 1, x, 0)
    ELSE IF x <= -(3 * Places * Unit) THEN -Unit
    ELSE RoundHalfEven(Unit * Unit, Unit + ExpSeries(-x, 1, -x, 0)) - Unit

\* math.log(y) for the rational y > 0, in units: 2 * sum z^(2k+1) / (2k+1)
\* with z = (y - 1) / (y + 1), summed with one more decimal place (|z| < 1)
Fine == 10 * Unit

FineHalf == Pow(10, (Places + 1) \div 2)

MulFine(a, b) == MulDiv(a, b, Fine, FineHalf)

RECURSIVE LogSeries(_, _, _, _)
LogSeries(z2, k, pw, acc) ==
    IF k > SeriesTerms \/ pw = 0 THEN acc
    ELSE LogSeries(z2, k + 1, MulFine(pw, z2), acc + RoundHalfEven(2 * pw, 2 * k + 1))

Log(y) ==
    LET z == RoundHalfEven((y.n - y.d) * Fine, y.n + y.d)
    IN  RoundHalfEven(LogSeries(MulFine(z, z), 0, z, 0), 10)

\* ----------------------------------------------------------------- strings
\* A Python str is the sequence of its characters.
UpperChars == <<"A", "B", "C", "D", "E", "F", "G", "H", "I", "J", "K", "L", "M",
                "N", "O", "P", "Q", "R", "S", "T", "U", "V", "W", "X", "Y", "Z">>
LowerChars == <<"a", "b", "c", "d", "e", "f", "g", "h", "i", "j", "k", "l", "m",
                "n", "o", "p", "q", "r", "s", "t", "u", "v", "w", "x", "y", "z">>
DigitChars == <<"0", "1", "2", "3", "4", "5", "6", "7", "8", "9">>

\* str.lower() and str.upper() of one character
Lower(c) ==
    IF \E k \in DOMAIN UpperChars : UpperChars[k] = c
    THEN LowerChars[CHOOSE k \in DOMAIN UpperChars : UpperChars[k] = c]
    ELSE c

Upper(c) ==
    IF \E k \in DOMAIN LowerChars : LowerChars[k] = c
    THEN UpperChars[CHOOSE k \in DOMAIN LowerChars : LowerChars[k] = c]
    ELSE c

LowerStr(x) == [k \in DOMAIN x |-> Lower(x[k])]

\* the slice x[0:n]
Prefix(x, n) == SubSeq(x, 1, IF Len(x) < n THEN Len(x) ELSE n)

\* str(n) of an integer n >= 0
RECURSIVE StrNat(_)
StrNat(n) == IF n < 10 THEN <<DigitChars[n + 1]>>
             ELSE Append(StrNat(n \div 10), DigitChars[(n % 10) + 1])

\* A value passed as r_is or get: the default False, an integer code, or a str.
NoTag == [t |-> "bool", n |-> 0, s |-> <<>>]
IntTag(k) == [t |-> "int", n |-> k, s |-> <<>>]
StrTag(x) == [t |-> "str", n |-> 0, s |-> x]

\* Python's truth value of such a value, and str() of it
Truthy(x) == IF x.t = "str" THEN x.s # <<>> ELSE x.n # 0
Str(x) == IF x.t = "str" THEN x.s ELSE StrNat(x.n)

\* the keys of the bundle
KeyI == <<"i">>
KeyD == <<"d">>
KeyV == <<"v">>
KeyDelta == <<"d", "e", "l", "t", "a">>
Keys == {KeyI, KeyD, KeyV, KeyDelta}

\* get_rType with the test for 'd' made before the test for 'de'
get_rTypeFirstLetter(x) ==
    IF x = <<"1">> \/ Lower(x[1]) = "i" THEN KeyI
    ELSE IF x = <<"2">> \/ Lower(x[1]) = "d" THEN KeyD
    ELSE IF x = <<"4">> \/ Lower(x[1]) = "c" \/ Lower(x[1]) = "f" THEN KeyDelta
    ELSE IF x = <<"3">> \/ Lower(x[1]) = "v" THEN KeyV
    ELSE x

\* get_rType(x), x a non-empty str
get_rType(x) ==
    IF x = <<"1">> \/ Lower(x[1]) = "i" THEN KeyI
    ELSE IF \/ x = <<"4">>
            \/ LowerStr(Prefix(x, 2)) = <<"d", "e">>
            \/ Lower(x[1]) = "c"
            \/ Lower(x[1]) = "f" THEN KeyDelta
    ELSE IF x = <<"2">> \/ Lower(x[1]) = "d" THEN KeyD
    ELSE IF x = <<"3">> \/ Lower(x[1]) = "v" THEN KeyV
    ELSE x

\* ------------------------------------------------------------------- rates
\* A float that is a complex number (the result of a fractional power of a
\* negative base): the only thing the code does with one is fail on it.
ComplexR == [n |-> 1, d |-> 0]
IsComplex(r) == r.d = 0

\* What a call gives back: the exception it ends in ("none": it returns), and
\* the value returned, a dict (the bundle) or a float.
Raise(e) == [exc |-> e, type |-> "none", dict |-> <<>>, num |-> 0]
ReturnDict(b) == [exc |-> "none", type |-> "dict", dict |-> b, num |-> 0]
ReturnNum(x) == [exc |-> "none", type |-> "float", dict |-> <<>>, num |-> x]

Bundle(i, d, v, delta) ==
    [k \in Keys |-> IF k = KeyI THEN i ELSE IF k = KeyD THEN d
                    ELSE IF k = KeyV THEN v ELSE delta]

\* math.exp(x) is an OverflowError for x above 709.78 (x in units)
ExpOverflows(x) == x * 100 > 70978 * Unit

\* interest with d = i in place of d = i/(1+i)
interestUndiscounted(r) ==
    IF ~IsComplex(r) /\ r.d + r.n = 0 THEN Raise("ZeroDivisionError")
    ELSE IF IsComplex(r) THEN Raise("TypeError")
    ELSE IF ExpOverflows(Round10(r)) THEN Raise("OverflowError")
    ELSE ReturnDict(Bundle(r, r, Rat(r.d - r.n, r.d), Rat(ExpM1(Round10(r)), Unit)))

\* interest(r): the unrounded bundle of an interest rate r, or the exception.
\* exp() of a complex number is a TypeError, and of a large number an
\* OverflowError; the division i/(1+i) comes first.
interest(r) ==
    IF ~IsComplex(r) /\ r.d + r.n = 0 THEN Raise("ZeroDivisionError")
    ELSE IF IsComplex(r) THEN Raise("TypeError")
    ELSE IF ExpOverflows(Round10(r)) THEN Raise("OverflowError")
    ELSE ReturnDict(Bundle(r,
                           Rat(r.n, r.d + r.n),
                           Rat(r.d, r.d + r.n),
                           Rat(ExpM1(Round10(r)), Unit)))

\* discount with i = d in place of i = d/(1-d)
discountUnconverted(r) ==
    IF r.d - r.n = 0 THEN Raise("ZeroDivisionError")
    ELSE IF ExpOverflows(Round10(r)) THEN Raise("OverflowError")
    ELSE ReturnDict(Bundle(r, r, Rat(r.d - r.n, r.d), Rat(ExpM1(Round10(r)), Unit)))

\* discount(r): r is a discount rate
discount(r) ==
    IF r.d - r.n = 0 THEN Raise("ZeroDivisionError")
    ELSE LET i == Rat(r.n, r.d - r.n)
         IN  IF ExpOverflows(Round10(i)) THEN Raise("OverflowError")
             ELSE ReturnDict(Bundle(i, r, Rat(r.d - r.n, r.d),
                               Rat(ExpM1(Round10(i)), Unit)))

\* getV giving a bundle for the discount factor 0 as well
getVOfZero(r) ==
    IF r.n = 0 THEN ReturnDict(Bundle(r, Rat(r.d, r.d), r, r))
    ELSE LET i == Rat(r.d - r.n, r.n)
         IN  IF ExpOverflows(Round10(i)) THEN Raise("OverflowError")
             ELSE ReturnDict(Bundle(i, Rat(r.d - r.n, r.d), r,
                                    Rat(ExpM1(Round10(i)), Unit)))

\* getV(r): r is a discount factor
getV(r) ==
    IF r.n = 0 THEN Raise("ZeroDivisionError")
    ELSE LET i == Rat(r.d - r.n, r.n)
         IN  IF ExpOverflows(Round10(i)) THEN Raise("OverflowError")
             ELSE ReturnDict(Bundle(i, Rat(r.d - r.n, r.d), r,
                                    Rat(ExpM1(Round10(i)), Unit)))

\* delta with i = delta in place of i = log(1 + delta)
deltaUnlogged(r) ==
    IF Sign(r.d + r.n) * Sign(r.d) <= 0 THEN Raise("ValueError")
    ELSE LET i == Round10(r)
         IN  IF Unit + i = 0 THEN Raise("ZeroDivisionError")
             ELSE ReturnDict(Bundle(Rat(i, Unit), Rat(i, Unit + i),
                                    Rat(Unit, Unit + i), r))

\* delta(r): r is a force of interest; log of a number <= 0 is a ValueError
delta(r) ==
    IF Sign(r.d + r.n) * Sign(r.d) <= 0 THEN Raise("ValueError")
    ELSE LET i == Log(Rat(Abs(r.d + r.n), Abs(r.d)))
         IN  IF Unit + i = 0 THEN Raise("ZeroDivisionError")
             ELSE ReturnDict(Bundle(Rat(i, Unit), Rat(i, Unit + i),
                                    Rat(Unit, Unit + i), r))

\* roundValues(answer): every entry rounded, in units
roundValues(answer) == [k \in Keys |-> Round10(answer[k])]

\* x^k for x >= 0 in units and an integer k >= 0, in units; a product above
\* the cap (at least 1.0) is reported as one unit more than the cap
RECURSIVE PowCapped(_, _, _)
PowCapped(x, k, cap) ==
    LET c == IF cap < Unit THEN Unit ELSE cap
    IN  IF k = 0 THEN Unit
        ELSE LET rest == PowCapped(x, k - 1, c)
             IN  IF rest > c THEN c + 1
                 ELSE LET p == MulUnit(rest, x)
                      IN  IF p > c THEN c + 1 ELSE p

\* the smallest x in lo..hi with x^k >= b (b >= 0 in units), by bisection
RECURSIVE RootSearch(_, _, _, _)
RootSearch(b, k, lo, hi) ==
    IF lo >= hi THEN hi
    ELSE LET mid == (lo + hi) \div 2
         IN  IF PowCapped(mid, k, b) >= b THEN RootSearch(b, k, lo, mid)
             ELSE RootSearch(b, k, mid + 1, hi)

\* the k-th root of b >= 0, in units: of the two neighbours of the exact
\* root, the one whose power is nearer to b
KthRoot(b, k) ==
    LET top == IF b > Unit THEN b ELSE Unit
        x == RootSearch(b, k, 0, top)
    IN  IF x > 0 /\ b - PowCapped(x - 1, k, b) < PowCapped(x, k, 2 * b + Unit) - b
        THEN x - 1 ELSE x

\* the largest power the model computes, in units: larger floats are outside
\* the model (big), and so is the reciprocal of a power that rounds to zero
PowCap == 12 * Unit

\* The float power b ** (p/q) for b in units and integers p, q, q # 0: the
\* result [exc, cx, big, val].  A negative base with a fractional exponent
\* gives a complex number (cx); zero to a negative power is a
\* ZeroDivisionError.
FloatPow(b, p, q) ==
    LET pn == IF q < 0 THEN -p ELSE p
        qn == Abs(q)
        whole == pn % qn = 0
        e == pn \div qn
        mag == IF whole THEN PowCapped(Abs(b), Abs(e), PowCap)
               ELSE PowCapped(KthRoot(Abs(b), qn), Abs(pn), PowCap)
        sgn == IF b < 0 /\ whole /\ e % 2 = 1 THEN -1 ELSE 1
        inv == IF mag = 0 THEN PowCap + 1 ELSE RoundHalfEven(Unit * Unit, mag)
        val == IF pn < 0 THEN inv ELSE mag
        Res(x, c, v) == [exc |-> x, cx |-> c, big |-> FALSE, val |-> v]
    IN  IF pn = 0 THEN Res("none", FALSE, Unit)
        ELSE IF b = 0 /\ pn < 0 THEN Res("ZeroDivisionError", FALSE, 0)
        ELSE IF b = 0 THEN Res("none", FALSE, 0)
        ELSE IF b < 0 /\ ~whole THEN Res("none", TRUE, 0)
        ELSE [exc |-> "none", cx |-> FALSE, big |-> val > PowCap, val |-> sgn * val]

\* The rate kind rates() works with: get_rType of str(r_is) when r_is is
\* truthy, else "i"
RateKind(r_is) == IF Truthy(r_is) THEN get_rType(Str(r_is)) ELSE KeyI

\* a dispatch that takes a kind that is no key as an interest rate
DispatchKnown(r, kind) ==
    IF kind = KeyD THEN discount(r)
    ELSE IF kind = KeyV THEN getV(r)
    ELSE IF kind = KeyDelta THEN delta(r)
    ELSE interest(r)

\* The dispatch on the rate kind; any kind that is not i, d or v is taken as
\* a force of interest.
Dispatch(r, kind) ==
    IF kind = KeyI THEN interest(r)
    ELSE IF kind = KeyD THEN discount(r)
    ELSE IF kind = KeyV THEN getV(r)
    ELSE delta(r)

\* rates(r, r_is) with get and q_per_t omitted: the rounded bundle
RatesBundle(r, r_is) ==
    LET answer == Dispatch(r, RateKind(r_is))
    IN  IF answer.exc # "none" THEN answer
        ELSE ReturnDict(roundValues(answer.dict))

\* a rescaling by the power q_per_t in place of 1 / q_per_t
RescalePower(answer, q_per_t) ==
    IF q_per_t.n = 0 \/ answer.exc # "none" THEN answer
    ELSE LET pw == FloatPow(Unit + answer.dict[KeyI], q_per_t.n, q_per_t.d)
         IN  IF pw.exc # "none" THEN Raise(pw.exc)
             ELSE IF pw.cx THEN RatesBundle(ComplexR, NoTag)
             ELSE RatesBundle(Rat((IF pw.big THEN PowCap ELSE pw.val) - Unit, Unit), NoTag)

\* The frequency rescaling: i = (1 + answer['i']) ** (1 / q_per_t) - 1 and
\* answer = rates(r=i).  q_per_t is a rational, 0 (False) when omitted.
Rescale(answer, q_per_t) ==
    IF q_per_t.n = 0 \/ answer.exc # "none" THEN answer
    ELSE LET pw == FloatPow(Unit + answer.dict[KeyI], q_per_t.d, q_per_t.n)
         IN  IF pw.exc # "none" THEN Raise(pw.exc)
             ELSE IF pw.cx THEN RatesBundle(ComplexR, NoTag)
             ELSE RatesBundle(Rat(pw.val - Unit, Unit), NoTag)

\* the rescaled rate is one the model computes
RescaleFits(answer, q_per_t) ==
    IF q_per_t.n = 0 \/ answer.exc # "none" THEN TRUE
    ELSE ~FloatPow(Unit + answer.dict[KeyI], q_per_t.d, q_per_t.n).big

\* a selection that gives the entry i whatever field is asked for
SelectFirst(answer, get) ==
    IF ~Truthy(get) \/ answer.exc # "none" THEN answer
    ELSE ReturnNum(answer.dict[KeyI])

\* The field selection: answer[get_rType(str(get))] when get is truthy
Select(answer, get) ==
    IF ~Truthy(get) \/ answer.exc # "none" THEN answer
    ELSE LET key == get_rType(Str(get))
         IN  IF key \in DOMAIN answer.dict THEN ReturnNum(answer.dict[key])
             ELSE Raise("KeyError")

\* rates(r, r_is, get, q_per_t)
rates(r, r_is, get, q_per_t) ==
    Select(Rescale(RatesBundle(r, r_is), q_per_t), get)

\* ------------------------------------------------------------ the root finder
\* mpmath.polyroots(q) is a library call.  It is modelled by what it returns
\* for the list q of integer coefficients, highest power first: the real roots
\* (type mpf) to the resolution 1/RootScale, each as the grid point n with
\* n/RootScale the root or the grid point just below it, in ascending order,
\* then the non-real roots (type mpc), whose values the code never reads.

\* RootScale^deg * p(n / RootScale) for the polynomial with coefficients q
RECURSIVE PolyAt(_, _)
PolyAt(q, n) ==
    IF Len(q) = 0 THEN 0
    ELSE q[Len(q)] * Pow(RootScale, Len(q) - 1) + n * PolyAt(SubSeq(q, 1, Len(q) - 1), n)

\* the coefficients of the derivative
Derivative(q) == [k \in 1..(Len(q) - 1) |-> q[k] * (Len(q) - k)]

\* how many times n/RootScale is a root of q (q not the zero polynomial)
RECURSIVE Multiplicity(_, _)
Multiplicity(q, n) ==
    IF Len(q) <= 1 \/ PolyAt(q, n) # 0 THEN 0
    ELSE 1 + Multiplicity(Derivative(q), n)

\* the real roots at the grid point n: the multiplicity of an exact root, or
\* one root when p changes sign between n and n + 1
RootsAt(q, n) ==
    IF PolyAt(q, n) = 0 THEN Multiplicity(q, n)
    ELSE IF Sign(PolyAt(q, n)) * Sign(PolyAt(q, n + 1)) < 0 THEN 1
    ELSE 0

\* every root lies within 1 + max |q[k] / q[1]| of zero (Cauchy's bound)
RECURSIVE MaxAbs(_)
MaxAbs(q) ==
    IF Len(q) = 0 THEN 0
    ELSE LET m == MaxAbs(Tail(q))
         IN  IF Abs(Head(q)) > m THEN Abs(Head(q)) ELSE m

RootBound(q) == 2 + (MaxAbs(q) \div Abs(q[1]))

Copies(x, m) == [k \in 1..m |-> x]

RootGrid(q) == -(RootBound(q) * RootScale)..(RootBound(q) * RootScale)

\* the roots at the grid points of S, in ascending order
RECURSIVE RootsAscending(_, _)
RootsAscending(q, S) ==
    IF S = {} THEN <<>>
    ELSE LET n == CHOOSE x \in S : \A y \in S : x <= y
         IN  Copies([type |-> "mpf", val |-> n], RootsAt(q, n))
                 \o RootsAscending(q, S \ {n})

RealRoots(q) == RootsAscending(q, {n \in RootGrid(q) : RootsAt(q, n) > 0})

\* some real root is a repeated one
HasRepeatedRoot(q) ==
    \E n \in RootGrid(q) : Multiplicity(q, n) >= 2

\* a root finder that finds no roots where polyroots fails
polyrootsLenient(q) == {[exc |-> "none", roots |-> <<>>]}

\* The outcomes of polyroots(q).  An empty list or [0] is refused with a
\* ValueError, a one-element list has no roots, and a zero leading coefficient
\* fails in the division that makes the polynomial monic.  With a repeated
\* root the iteration may also give up with NoConvergence.
polyroots(q) ==
    IF Len(q) = 0 \/ (Len(q) = 1 /\ q[1] = 0)
    THEN {[exc |-> "ValueError", roots |-> <<>>]}
    ELSE IF Len(q) = 1 THEN {[exc |-> "none", roots |-> <<>>]}
    ELSE IF q[1] = 0 THEN {[exc |-> "ZeroDivisionError", roots |-> <<>>]}
    ELSE LET re == RealRoots(q)
             rest == Len(q) - 1 - Len(re)
             all == re \o Copies([type |-> "mpc", val |-> 0], IF rest > 0 THEN rest ELSE 0)
         IN  {[exc |-> "none", roots |-> all]}
             \cup (IF HasRepeatedRoot(q)
                   THEN {[exc |-> "NoConvergence", roots |-> <<>>]} ELSE {})

\* ----------------------------------------------------------------- solve_r
VARIABLES
    pc,        \* where the call of solve_r is
    args,      \* its arguments pv, q, t, fv, annuity_due as passed
    q,         \* the local list q
    shared,    \* the local q is the list object the caller passed
    callerQ,   \* the caller's list object (<<>> when a number was passed)
    roots,     \* what polyroots(q) returned
    real,      \* the list real, in units 1/RootScale
    r,         \* the solved rate r
    opts,      \* the arguments get and q_per_t
    result,    \* what rates() gave back to solve_r
    exc        \* the exception solve_r ended in, "none" while there is none

solveVars == <<pc, args, q, shared, callerQ, roots, real, r, opts, result, exc>>

\* q as passed: a number (0 is also the default False) or a list
NumQ(x) == [isList |-> FALSE, num |-> x, list |-> <<>>]
ListQ(l) == [isList |-> TRUE, num |-> 0, list |-> l]

Args(pv, qa, t, fv, due) == [pv |-> pv, q |-> qa, t |-> t, fv |-> fv, annuity_due |-> due]

NoOpts == [get |-> NoTag, q_per_t |-> Rat(0, 1)]

\* q * t of a list
RECURSIVE Repeat(_, _)
Repeat(l, t) == IF t <= 0 THEN <<>> ELSE l \o Repeat(l, t - 1)

RECURSIVE MaxOf(_)
MaxOf(l) == IF Len(l) = 1 THEN l[1]
            ELSE LET m == MaxOf(Tail(l)) IN IF l[1] > m THEN l[1] ELSE m

RECURSIVE MinOf(_)
MinOf(l) == IF Len(l) = 1 THEN l[1]
            ELSE LET m == MinOf(Tail(l)) IN IF l[1] < m THEN l[1] ELSE m

\* A step of the assembly works on [exc, q, shared, caller]: the local list,
\* whether it still is the caller's object, and the caller's object.
Asm(e, l, sh, c) == [exc |-> e, q |-> l, shared |-> sh, caller |-> c]

\* if isinstance(q,list) == False: q = [q]
AsList(qa) ==
    IF qa.isList THEN Asm("none", qa.list, TRUE, qa.list)
    ELSE Asm("none", <<qa.num>>, FALSE, <<>>)

\* if t != False: q *= t       (in place: the caller's list grows too)
Repeated(s, t) ==
    IF t # 0
    THEN Asm("none", Repeat(s.q, t), s.shared, IF s.shared THEN Repeat(s.q, t) ELSE s.caller)
    ELSE s

\* an assembly that puts -pv in front whether or not the annuity is due
WithPvPrepended(s, pv, due) ==
    IF pv # 0 THEN Asm("none", <<-pv>> \o s.q, FALSE, s.caller)
    ELSE s

\* if pv != False and annuity_due == True: q[0] = q[0]-pv
\* elif pv != False: q = [-pv] + q       (a new list: no longer the caller's)
WithPv(s, pv, due) ==
    IF pv # 0 /\ due
    THEN IF s.q = <<>> THEN Asm("IndexError", s.q, s.shared, s.caller)
         ELSE LET l == [s.q EXCEPT ![1] = @ - pv]
              IN  Asm("none", l, s.shared, IF s.shared THEN l ELSE s.caller)
    ELSE IF pv # 0 THEN Asm("none", <<-pv>> \o s.q, FALSE, s.caller)
    ELSE s

\* an assembly that appends -fv whether or not the annuity is due
WithFvAppended(s, fv, due) ==
    IF s.exc # "none" \/ fv = 0 THEN s
    ELSE LET l == Append(s.q, -fv)
         IN  Asm("none", l, s.shared, IF s.shared THEN l ELSE s.caller)

\* if fv != False and annuity_due == False: q[-1] = q[-1] - fv
\* elif fv != False and annuity_due == True: q.append(-fv)
WithFv(s, fv, due) ==
    IF s.exc # "none" THEN s
    ELSE IF fv # 0 /\ ~due
    THEN IF s.q = <<>> THEN Asm("IndexError", s.q, s.shared, s.caller)
         ELSE LET l == [s.q EXCEPT ![Len(s.q)] = @ - fv]
              IN  Asm("none", l, s.shared, IF s.shared THEN l ELSE s.caller)
    ELSE IF fv # 0 /\ due
    THEN LET l == Append(s.q, -fv)
         IN  Asm("none", l, s.shared, IF s.shared THEN l ELSE s.caller)
    ELSE s

\* lines 232-243 as a whole
Assembled(a) ==
    WithFv(WithPv(Repeated(AsList(a.q), a.t), a.pv, a.annuity_due), a.fv, a.annuity_due)

\* q == False: true of the number 0 (and of False), never of a list
NoPayments(qa) == ~qa.isList /\ qa.num = 0

\* a closed form that takes pv as an outlay: (fv / -pv) ** (1 / t) - 1
ClosedFormOutlay(pv, fv, t) ==
    IF t = 1 THEN Rat(fv + pv, -pv)
    ELSE IF t = -1 THEN Rat(-pv - fv, fv)
    ELSE LET pw == FloatPow(Round10(Rat(fv, -pv)), 1, t)
         IN  IF pw.cx THEN ComplexR ELSE Rat(pw.val - Unit, Unit)

\* a closed form without the subtraction of one: (fv / pv) ** (1 / t)
ClosedFormFactor(pv, fv, t) ==
    IF t = 1 THEN Rat(fv, pv)
    ELSE IF t = -1 THEN Rat(pv, fv)
    ELSE LET pw == FloatPow(Round10(Rat(fv, pv)), 1, t)
         IN  IF pw.cx THEN ComplexR ELSE Rat(pw.val, Unit)

\* r = (fv / pv) ** (1 / t) - 1 for pv, fv # 0 and t # 0.  With t = 1 or -1 the
\* power is the exact quotient; otherwise it is computed in units.
ClosedForm(pv, fv, t) ==
    IF t = 1 THEN Rat(fv - pv, pv)
    ELSE IF t = -1 THEN Rat(pv - fv, fv)
    ELSE LET pw == FloatPow(Round10(Rat(fv, pv)), 1, t)
         IN  IF pw.cx THEN ComplexR ELSE Rat(pw.val - Unit, Unit)

\* the values of the roots that are of type mpf, in the order returned
RECURSIVE RealOnly(_)
RealOnly(rs) ==
    IF rs = <<>> THEN <<>>
    ELSE IF Head(rs).type = "mpf" THEN <<Head(rs).val>> \o RealOnly(Tail(rs))
    ELSE RealOnly(Tail(rs))

\* a sentinel of 0 in place of 1
OrZero(l) == IF l = <<>> THEN <<0>> ELSE l

\* if real == []: real = [1]
OrSentinel(l) == IF l = <<>> THEN <<RootScale>> ELSE l

\* the largest real root itself, not less one
RateOfRoot(l) == Rat(MaxOf(l), RootScale)

\* the smallest real root in place of the largest
RateOfSmallest(l) == Rat(MinOf(l) - RootScale, RootScale)

\* r = max(real); r = float(r - 1)
RateOf(l) == Rat(MaxOf(l) - RootScale, RootScale)

\* max(q) < 0 or min(q) > 0
Degenerate(l) == MaxOf(l) < 0 \/ MinOf(l) > 0

\* q_per_t passed on as it is
NotInverted(x) == x

\* if q_per_t != False: q_per_t = 1 / q_per_t
Inverted(x) == IF x.n # 0 THEN Rat(x.d, x.n) ELSE x

\* the calls of solve_r that are made
Amounts == -MaxAmt..MaxAmt
Payments == {-1, 0, 1}
PaymentLists == UNION {[1..k -> Payments] : k \in 0..MaxList}
QInputs == {NumQ(x) : x \in Amounts} \cup {ListQ(l) : l \in PaymentLists}

BoundedCalls ==
    {a \in {Args(pv, qa, t, fv, due) : pv \in Amounts, qa \in QInputs, t \in 0..MaxT,
                                       fv \in Amounts, due \in BOOLEAN} :
        Len(Assembled(a).q) <= MaxCoeffs}

\* the documented calls with no payment stream
ExampleCalls == {Args(-100, NumQ(0), 1, 110, FALSE), Args(100, NumQ(0), 1, 110, FALSE)}

\* a loan of 1000 repaid by 100, 100, 100 and 1100
LoanCall == Args(0, ListQ(<<-1000, 100, 100, 100, 1100>>), 0, 0, FALSE)

Calls == BoundedCalls \cup ExampleCalls \cup {LoanCall}

Frequencies == {Rat(0, 1)} \cup {Rat(k, 1) : k \in 1..MaxFreq}
SolveGets == {NoTag, StrTag(KeyD), IntTag(3)}
\* the options of a call: a frequency, or a field, or neither
SolveOpts == {[get |-> NoTag, q_per_t |-> f] : f \in Frequencies}
                 \cup {[get |-> g, q_per_t |-> Rat(0, 1)] : g \in SolveGets}

SolveIdle ==
    /\ pc = "idle"
    /\ args = Args(0, NumQ(0), 0, 0, FALSE)
    /\ q = <<>>
    /\ shared = FALSE
    /\ callerQ = <<>>
    /\ roots = <<>>
    /\ real = <<>>
    /\ r = Rat(0, 1)
    /\ opts = NoOpts
    /\ result = Raise("none")
    /\ exc = "none"

\* solve_r is called
Call(a) ==
    /\ pc = "idle"
    /\ pc' = "called"
    /\ args' = a
    /\ q' = a.q.list
    /\ shared' = a.q.isList
    /\ callerQ' = a.q.list
    /\ UNCHANGED <<roots, real, r, opts, result, exc>>

\* lines 221-229: no payment stream
NoPayment ==
    /\ pc = "called"
    /\ NoPayments(args.q)
    /\ LET pv == IF args.pv = 0 THEN 1 ELSE args.pv
           fv == IF args.fv = 0 THEN 1 ELSE args.fv
       IN  IF args.t = 0
           THEN /\ pc' = "raised"
                /\ exc' = "ZeroDivisionError"
                /\ r' = r
           ELSE /\ pc' = "solved"
                /\ r' = ClosedForm(pv, fv, args.t)
                /\ exc' = exc
    /\ UNCHANGED <<args, q, shared, callerQ, roots, real, opts, result>>

\* lines 230-243: the payment list is assembled
Assemble ==
    /\ pc = "called"
    /\ ~NoPayments(args.q)
    /\ LET s == Assembled(args)
       IN  /\ q' = s.q
           /\ shared' = s.shared
           /\ callerQ' = s.caller
           /\ exc' = s.exc
           /\ pc' = IF s.exc = "none" THEN "assembled" ELSE "raised"
    /\ UNCHANGED <<args, roots, real, r, opts, result>>

\* line 247: polyroots(q)
FindRoots ==
    /\ pc = "assembled"
    /\ \E o \in polyroots(q) :
           /\ roots' = o.roots
           /\ exc' = o.exc
           /\ pc' = IF o.exc = "none" THEN "rooted" ELSE "raised"
    /\ UNCHANGED <<args, q, shared, callerQ, real, r, opts, result>>

\* lines 246-256: the real roots, the sentinel, the largest root minus one
SelectRoot ==
    /\ pc = "rooted"
    /\ real' = OrSentinel(RealOnly(roots))
    /\ r' = RateOf(real')
    /\ pc' = "selected"
    /\ UNCHANGED <<args, q, shared, callerQ, roots, opts, result, exc>>

\* lines 261-262: a schedule of one sign gives the rate 0
DegenerateTest ==
    /\ pc = "selected"
    /\ r' = IF Degenerate(q) THEN Rat(0, 1) ELSE r
    /\ pc' = "solved"
    /\ UNCHANGED <<args, q, shared, callerQ, roots, real, opts, result, exc>>

\* lines 265-269: q_per_t is inverted and rates() converts the rate.  get and
\* q_per_t are read nowhere before, so the call's values are drawn here.
Convert(get, q_per_t) ==
    /\ pc = "solved"
    /\ RescaleFits(RatesBundle(r, NoTag), Inverted(q_per_t))
    /\ opts' = [get |-> get, q_per_t |-> q_per_t]
    /\ result' = rates(r, NoTag, get, Inverted(q_per_t))
    /\ exc' = result'.exc
    /\ pc' = IF result'.exc = "none" THEN "returned" ELSE "raised"
    /\ UNCHANGED <<args, q, shared, callerQ, roots, real, r>>

\* the caller is done with the call
Finish ==
    /\ pc \in {"returned", "raised"}
    /\ pc' = "idle"
    /\ args' = Args(0, NumQ(0), 0, 0, FALSE)
    /\ q' = <<>>
    /\ shared' = FALSE
    /\ callerQ' = <<>>
    /\ roots' = <<>>
    /\ real' = <<>>
    /\ r' = Rat(0, 1)
    /\ opts' = NoOpts
    /\ result' = Raise("none")
    /\ exc' = "none"

\* ------------------------------------------------- the spellings of a tag
\* The ways a caller may write a rate kind: its code, its name, a prefix, in
\* any letter case.
NameI == <<"i", "n", "t", "e", "r", "e", "s", "t">>
NameD == <<"d", "i", "s", "c", "o", "u", "n", "t">>
NameV == <<"d", "i", "s", "c", "o", "u", "n", "t", "-", "f", "a", "c", "t", "o", "r">>
NameDelta == <<"f", "o", "r", "c", "e", "-", "o", "f", "-", "i", "n", "t", "e", "r", "e", "s", "t">>

UpperStr(x) == [k \in DOMAIN x |-> Upper(x[k])]
Capitalized(x) == [k \in DOMAIN x |-> IF k = 1 THEN Upper(x[k]) ELSE Lower(x[k])]
Uncapitalized(x) == [k \in DOMAIN x |-> IF k = 1 THEN Lower(x[k]) ELSE Upper(x[k])]
Cases(x) == {LowerStr(x), UpperStr(x), Capitalized(x), Uncapitalized(x)}

CodeOf(key) == IF key = KeyI THEN 1 ELSE IF key = KeyD THEN 2
               ELSE IF key = KeyV THEN 3 ELSE 4
NameOf(key) == IF key = KeyI THEN NameI ELSE IF key = KeyD THEN NameD
               ELSE IF key = KeyV THEN NameV ELSE NameDelta
PrefixesOf(key) == IF key = KeyDelta THEN {<<"d", "e">>, <<"c">>, <<"f">>} ELSE {key}

\* the strings that spell a kind, and the same as values passed to rates()
CodeStrings(key) == {StrNat(CodeOf(key))}
NameStrings(key) == Cases(NameOf(key))
PrefixStrings(key) == UNION {Cases(x) : x \in PrefixesOf(key)}
SpellingStrings(key) == CodeStrings(key) \cup NameStrings(key) \cup PrefixStrings(key)
SpellingTags(key) == {IntTag(CodeOf(key))} \cup {StrTag(x) : x \in SpellingStrings(key)}

\* --------------------------------------------------------- calls of rates()
VARIABLES
    rpc,       \* where the caller of rates() is
    rcall,     \* the arguments r, r_is, get, q_per_t of its call
    rres,      \* what the call gave back
    rfull,     \* what the same call gave back with get omitted
    rback,     \* what rates(d, 'd') gave back for the d of the bundle rres
    rplain     \* what the same call gave back with q_per_t omitted

ratesVars == <<rpc, rcall, rres, rfull, rback, rplain>>

RatesArgs(x, r_is, get, q_per_t) == [r |-> x, r_is |-> r_is, get |-> get, q_per_t |-> q_per_t]

RateInputs == {Rat(k, RateGrid) : k \in (-RateHi)..RateHi}
KindInputs == {NoTag, IntTag(2), StrTag(KeyD), StrTag(KeyV), StrTag(KeyDelta),
               StrTag(<<"x">>)}
FieldInputs == {NoTag, StrTag(<<"x">>), IntTag(5)}
                   \cup UNION {SpellingTags(key) : key \in Keys}
RateFrequencies == Frequencies \cup {Rat(1, k) : k \in 2..MaxFreq}
\* an interest rate too large for exp()
LargeRate == Rat(710, 1)
\* the calls made: every rate of every kind at every frequency with the whole
\* bundle asked for, and every field asked for of the whole-number rates
WholeRates == {x \in RateInputs : x.n % x.d = 0}
RatesCalls ==
    {RatesArgs(x, r_is, NoTag, f) :
         x \in RateInputs, r_is \in KindInputs, f \in RateFrequencies}
    \cup {RatesArgs(LargeRate, NoTag, NoTag, Rat(0, 1))}
    \cup {RatesArgs(x, r_is, get, f) :
              x \in WholeRates, r_is \in {NoTag, StrTag(KeyDelta)},
              get \in FieldInputs, f \in {Rat(0, 1), Rat(MaxFreq, 1)}}

RatesIdle ==
    /\ rpc = "idle"
    /\ rcall = RatesArgs(Rat(0, 1), NoTag, NoTag, Rat(0, 1))
    /\ rres = Raise("none")
    /\ rfull = Raise("none")
    /\ rback = Raise("none")
    /\ rplain = Raise("none")

\* rates(r, r_is, get, q_per_t) is called
RatesCall(x, r_is, get, q_per_t) ==
    /\ rpc = "idle"
    /\ RescaleFits(RatesBundle(x, r_is), q_per_t)
    /\ rpc' = "called"
    /\ rcall' = RatesArgs(x, r_is, get, q_per_t)
    /\ rres' = rates(x, r_is, get, q_per_t)
    /\ UNCHANGED <<rfull, rback, rplain>>

\* the caller repeats the call without the field selector
RatesFull ==
    /\ rpc = "called"
    /\ rpc' = "compared"
    /\ rfull' = rates(rcall.r, rcall.r_is, NoTag, rcall.q_per_t)
    /\ UNCHANGED <<rcall, rres, rback, rplain>>

\* the caller feeds the d of the bundle back as a discount rate (a d within
\* the range of floats the model computes)
RatesBack ==
    /\ rpc = "called"
    /\ rres.type = "dict"
    /\ Abs(rres.dict[KeyD]) <= PowCap
    /\ rpc' = "back"
    /\ rback' = rates(Rat(rres.dict[KeyD], Unit), StrTag(KeyD), NoTag, Rat(0, 1))
    /\ UNCHANGED <<rcall, rres, rfull, rplain>>

\* the caller repeats the call without the frequency
RatesPlain ==
    /\ rpc = "called"
    /\ rcall.q_per_t.n # 0
    /\ rpc' = "plain"
    /\ rplain' = rates(rcall.r, rcall.r_is, rcall.get, Rat(0, 1))
    /\ UNCHANGED <<rcall, rres, rfull, rback>>

RatesFinish ==
    /\ rpc \in {"called", "compared", "back", "plain"}
    /\ rpc' = "idle"
    /\ rcall' = RatesArgs(Rat(0, 1), NoTag, NoTag, Rat(0, 1))
    /\ rres' = Raise("none")
    /\ rfull' = Raise("none")
    /\ rback' = Raise("none")
    /\ rplain' = Raise("none")

\* ------------------------------------------------------ calls of get_rType()
VARIABLES
    tagIn,     \* the str get_rType() was called with
    tagOut     \* what it returned

tagVars == <<tagIn, tagOut>>

TagChars == {"i", "d", "v", "e", "c", "f", "x", "I", "D", "V", "E", "C", "F", "X",
             "1", "2", "3", "4", "5"}
TagInputs == {<<c>> : c \in TagChars}
                 \cup {<<c, e>> : c \in TagChars, e \in TagChars}
                 \cup UNION {SpellingStrings(key) : key \in Keys}

TagIdle == tagIn = <<>> /\ tagOut = <<>>

Normalize(x) ==
    /\ tagIn' = x
    /\ tagOut' = get_rType(x)

\* ------------------------------------------------------------------ solve_t
\* The floats of the model hold Places decimal places.  round(x, places) of
\* the float x (in units): to the nearest multiple of 10^-places, ties to
\* even; a float rounded to at least the places it holds is unchanged.
round(x, places) ==
    IF places >= Places THEN x
    ELSE LET step == Pow(10, Places - places)
         IN  RoundHalfEven(x, step) * step

\* F(v) for the value v of x, worked out once
With(x, F(_)) == CHOOSE y \in {F(v) : v \in {x}} : TRUE

\* the decimal places solve_t rounds to when precision is 0 (False)
SolveTPlaces == 10
\* the most decimal places solve_t, pv and fv round to
MaxPlaces == 16

Min(a, b) == IF a < b THEN a ELSE b

\* r_is as the callers of rates() pass it on: get_rType(str(r_is)) when it
\* is truthy, else 'i'
PassedKind(r_is) == StrTag(IF Truthy(r_is) THEN get_rType(Str(r_is)) ELSE KeyI)

\* math.log(n / d) of the quotient of two integers, d # 0: a ValueError
\* unless the quotient is positive
LogOfQuotient(n, d) ==
    IF Sign(n) * Sign(d) <= 0 THEN Raise("ValueError")
    ELSE ReturnNum(Log(Rat(Abs(n), Abs(d))))

\* the numerator of solve_t: pv, fv, q are integers, 0 (False) when omitted,
\* and pv has already been given its default
Numerator(iRates, pv, fv, pmt, annuity_due, denominator) ==
    IF (pmt = 0 /\ fv = 0) \/ pv = fv THEN ReturnNum(denominator)
    ELSE IF pmt = 0 /\ fv # 0 THEN LogOfQuotient(fv, pv)
    ELSE IF pmt # 0 /\ fv = 0
    THEN LET rate == IF annuity_due THEN iRates[KeyD] ELSE iRates[KeyI]
             left == LogOfQuotient(pmt * Unit - rate * pv, pmt * Unit)
         IN  IF left.exc # "none" THEN left ELSE ReturnNum(-left.num)
    ELSE ReturnNum(0)

\* solve_t once the rates are known
TimeGiven(iRates, pv, pmt, fv, annuity_due, precision) ==
    IF iRates.exc # "none" THEN iRates
    ELSE IF Unit + iRates.dict[KeyI] <= 0 THEN Raise("ValueError")
    ELSE With(Log(Rat(Unit + iRates.dict[KeyI], Unit)), LAMBDA denominator :
         With(Numerator(iRates.dict, IF pv = 0 THEN 1 ELSE pv, fv, pmt, annuity_due,
                        denominator), LAMBDA numerator :
         LET places == Min(IF precision = 0 THEN SolveTPlaces ELSE precision,
                           MaxPlaces)
         IN  IF numerator.exc # "none" THEN numerator
             ELSE IF denominator = 0 THEN Raise("ZeroDivisionError")
             ELSE ReturnNum(round(RoundHalfEven(numerator.num * Unit, denominator),
                                  places))))

\* solve_t(r, pv, r_is, q, q_per_t, fv, annuity_due, precision)
solve_t(rate, pv, r_is, pmt, q_per_t, fv, annuity_due, precision) ==
    With(rates(rate, PassedKind(r_is), NoTag, q_per_t), LAMBDA iRates :
         TimeGiven(iRates, pv, pmt, fv, annuity_due, precision))

VARIABLES
    tpc,       \* where the caller of solve_t() is
    tcall,     \* the arguments of its call
    tres       \* what the call gave back

solveTVars == <<tpc, tcall, tres>>

SolveTArgs(rate, pv, r_is, pmt, q_per_t, fv, annuity_due, precision) ==
    [r |-> rate, pv |-> pv, r_is |-> r_is, q |-> pmt, q_per_t |-> q_per_t,
     fv |-> fv, annuity_due |-> annuity_due, precision |-> precision]

SolveTRates == {Rat(-1, 4), Rat(0, 1), Rat(1, 10)}
\* the rates given, each with its kind: small interest rates, a discount
\* rate, and an interest rate below -1
SolveTKinds ==
    (SolveTRates \X {NoTag}) \cup {<<Rat(1, 4), StrTag(KeyD)>>, <<Rat(-2, 1), NoTag>>}
SolveTPayments == {0, 1, -MaxAmt}
SolveTPrecisions == {0, 1, MaxPlaces + 1}
SolveTCalls ==
    {SolveTArgs(c[1], pv0, c[2], pmt, f, fv0, due, p) :
         c \in SolveTKinds, pv0 \in Amounts, pmt \in SolveTPayments,
         f \in {Rat(0, 1), Rat(MaxFreq, 1)}, fv0 \in Amounts, due \in BOOLEAN,
         p \in SolveTPrecisions}

SolveTIdle ==
    /\ tpc = "idle"
    /\ tcall = SolveTArgs(Rat(0, 1), 0, NoTag, 0, Rat(0, 1), 0, FALSE, 0)
    /\ tres = Raise("none")

\* solve_t is called and returns or raises
SolveTCall(c) ==
    /\ tpc = "idle"
    /\ tpc' = "done"
    /\ tcall' = c
    /\ tres' = solve_t(c.r, c.pv, c.r_is, c.q, c.q_per_t, c.fv, c.annuity_due,
                       c.precision)

SolveTFinish ==
    /\ tpc = "done"
    /\ tpc' = "idle"
    /\ tcall' = SolveTArgs(Rat(0, 1), 0, NoTag, 0, Rat(0, 1), 0, FALSE, 0)
    /\ tres' = Raise("none")

\* ---------------------------------------------------------------- pv and fv
\* The precision argument: omitted it is False, which the code cannot tell
\* from the integer 0 (False == 0)
NoPrecision == [given |-> FALSE, n |-> 0]
Precision(n) == [given |-> TRUE, n |-> n]

\* the decimal places pv and fv round to when precision is 0 (False)
MoneyPlaces == 2

\* n / d for floats n and d # 0 in units, in units
DivUnits(n, d) == IF d < 0 THEN MulDiv(-n, Unit, -d, 1) ELSE MulDiv(n, Unit, d, 1)

\* sum(payment * base ** t for the payments of the list l, t counting up
\* from first), in units
RECURSIVE Accumulated(_, _, _)
Accumulated(l, base, first) ==
    IF Len(l) = 0 THEN 0
    ELSE Head(l) * FloatPow(base, first, 1).val + Accumulated(Tail(l), base, first + 1)

Reverse(l) == [k \in DOMAIN l |-> l[Len(l) + 1 - k]]

\* q == False: true of the number 0, of no list
IsFalse(qa) == ~qa.isList /\ qa.num = 0

\* the places pv and fv hand to round(): 16 when neither the other value nor
\* q is given, else 2 when precision is 0 (False), else precision, at most 16
Places16(other, qa, precision) ==
    LET p == IF other = 0 /\ IsFalse(qa) THEN MaxPlaces ELSE precision.n
    IN  Min(IF p = 0 THEN MoneyPlaces ELSE p, MaxPlaces)

\* presVal of pv() once the rates are known: t, fv after their defaults
PresValGiven(iRates, t, qa, fv0, annuity_due, cash_today) ==
    LET v == iRates[KeyV]
        first == IF annuity_due THEN 0 ELSE 1
        by == IF annuity_due THEN iRates[KeyD] ELSE iRates[KeyI]
    IN  With(FloatPow(v, IF qa.isList THEN first + Len(qa.list) - 1 ELSE t, 1),
             LAMBDA last :
                 IF ~qa.isList /\ by = 0 THEN Raise("ZeroDivisionError")
                 ELSE IF last.exc # "none" THEN Raise(last.exc)
                 ELSE ReturnNum((IF qa.isList THEN Accumulated(qa.list, v, first)
                                 ELSE DivUnits(qa.num * (Unit - last.val), by))
                                + fv0 * last.val + cash_today * Unit))

\* presVal of pv() before it is rounded
PresVal(rate, t, r_is, qa, fv0, q_per_t, annuity_due, cash_today) ==
    LET t1 == IF t = 0 THEN 1 ELSE t
        t2 == IF q_per_t # 0 THEN t1 * q_per_t ELSE t1
        fv1 == IF fv0 = 0 /\ IsFalse(qa) THEN 1 ELSE fv0
    IN  With(rates(rate, PassedKind(r_is), NoTag, Rat(q_per_t, 1)), LAMBDA iRates :
             IF iRates.exc # "none" THEN iRates
             ELSE PresValGiven(iRates.dict, t2, qa, fv1, annuity_due, cash_today))

\* pv(r, t, r_is, q, fv, q_per_t, annuity_due, cash_today, precision)
pv(rate, t, r_is, qa, fv0, q_per_t, annuity_due, cash_today, precision) ==
    With(PresVal(rate, t, r_is, qa, fv0, q_per_t, annuity_due, cash_today),
         LAMBDA presVal :
             IF presVal.exc # "none" THEN presVal
             ELSE ReturnNum(round(presVal.num, Places16(fv0, qa, precision))))

\* futVal of fv() once the rates are known: t, pv after their defaults
FutValGiven(iRates, t, qa, pv0, annuity_due, future_cash) ==
    LET acc == Unit + iRates[KeyI]
        first == IF annuity_due THEN 1 ELSE 0
        by == IF annuity_due THEN iRates[KeyD] ELSE iRates[KeyI]
    IN  With(FloatPow(acc, t, 1), LAMBDA last :
                 IF ~qa.isList /\ by = 0 THEN Raise("ZeroDivisionError")
                 ELSE ReturnNum((IF qa.isList
                                 THEN Accumulated(Reverse(qa.list), acc, first)
                                 ELSE DivUnits(qa.num * (last.val - Unit), by))
                                + pv0 * last.val + future_cash * Unit))

\* futVal of fv() before it is rounded
FutVal(rate, t, r_is, qa, pv0, q_per_t, annuity_due, future_cash) ==
    LET t2 == IF q_per_t # 0 THEN t * q_per_t ELSE t
        pv1 == IF pv0 = 0 /\ IsFalse(qa) THEN 1 ELSE pv0
    IN  With(rates(rate, PassedKind(r_is), NoTag, Rat(q_per_t, 1)), LAMBDA iRates :
             IF iRates.exc # "none" THEN iRates
             ELSE FutValGiven(iRates.dict, t2, qa, pv1, annuity_due, future_cash))

\* fv(r, t, r_is, q, pv, q_per_t, annuity_due, future_cash, precision)
fv(rate, t, r_is, qa, pv0, q_per_t, annuity_due, future_cash, precision) ==
    With(FutVal(rate, t, r_is, qa, pv0, q_per_t, annuity_due, future_cash),
         LAMBDA futVal :
             IF futVal.exc # "none" THEN futVal
             ELSE ReturnNum(round(futVal.num, Places16(pv0, qa, precision))))

VARIABLES
    mpc,       \* where the caller of pv() or fv() is: "idle", "pv", "fv"
    mcall,     \* the arguments of its call
    mraw,      \* the value the call had before it rounded it
    mres       \* what the call gave back

moneyVars == <<mpc, mcall, mraw, mres>>

MoneyArgs(rate, t, r_is, qa, other, q_per_t, annuity_due, cash, precision) ==
    [r |-> rate, t |-> t, r_is |-> r_is, q |-> qa, other |-> other,
     q_per_t |-> q_per_t, annuity_due |-> annuity_due, cash |-> cash,
     precision |-> precision]

MoneyRates == {Rat(-1, 5), Rat(0, 1), Rat(1, 4)}
MoneyPayments == {NumQ(0), NumQ(-MaxAmt), ListQ(<<>>), ListQ(<<MaxAmt, 1>>)}
MoneyPrecisions ==
    {NoPrecision} \cup {Precision(n) : n \in 0..Places}
        \cup {Precision(MaxPlaces), Precision(MaxPlaces + 1)}
\* the calls made: every precision with every payment and other value at one
\* rate, and the other arguments varied with precision omitted
MoneyCalls ==
    {MoneyArgs(Rat(1, 4), MaxT, NoTag, qa, other, 0, FALSE, 0, p) :
         qa \in MoneyPayments, other \in 0..MaxAmt, p \in MoneyPrecisions}
    \cup {MoneyArgs(x, t, NoTag, qa, other, f, due, cash, NoPrecision) :
              x \in MoneyRates, t \in 0..MaxT, qa \in MoneyPayments,
              other \in {0, MaxAmt}, f \in {0, MaxFreq}, due \in BOOLEAN,
              cash \in {0, 1}}

MoneyIdle ==
    /\ mpc = "idle"
    /\ mcall = MoneyArgs(Rat(0, 1), 0, NoTag, NumQ(0), 0, 0, FALSE, 0, NoPrecision)
    /\ mraw = Raise("none")
    /\ mres = Raise("none")

\* pv() is called and returns or raises
PvCall(c) ==
    /\ mpc = "idle"
    /\ mpc' = "pv"
    /\ mcall' = c
    /\ mraw' = PresVal(c.r, c.t, c.r_is, c.q, c.other, c.q_per_t, c.annuity_due, c.cash)
    /\ mres' = pv(c.r, c.t, c.r_is, c.q, c.other, c.q_per_t, c.annuity_due, c.cash,
                  c.precision)

\* fv() is called and returns or raises
FvCall(c) ==
    /\ mpc = "idle"
    /\ mpc' = "fv"
    /\ mcall' = c
    /\ mraw' = FutVal(c.r, c.t, c.r_is, c.q, c.other, c.q_per_t, c.annuity_due, c.cash)
    /\ mres' = fv(c.r, c.t, c.r_is, c.q, c.other, c.q_per_t, c.annuity_due, c.cash,
                  c.precision)

MoneyFinish ==
    /\ mpc \in {"pv", "fv"}
    /\ mpc' = "idle"
    /\ mcall' = MoneyArgs(Rat(0, 1), 0, NoTag, NumQ(0), 0, 0, FALSE, 0, NoPrecision)
    /\ mraw' = Raise("none")
    /\ mres' = Raise("none")

\* ------------------------------------------------------------------- primes
\* the largest n primes() is called with
MaxN == 60

\* the slice l[start::step] of a list, start >= 0 and step > 0
Slice(l, start, step) ==
    LET count == IF start >= Len(l) THEN 0 ELSE (Len(l) - 1 - start) \div step + 1
    IN  [k \in 1..count |-> l[start + 1 + (k - 1) * step]]

\* a marking that starts one step late, at l[a+counter+a::a]
MarkLate(l, z, a, counter) ==
    LET marked == {b \in DOMAIN z : \E k \in DOMAIN Slice(l, a + counter + a, a) :
                                        Slice(l, a + counter + a, a)[k] = b}
    IN  [b \in DOMAIN z |-> IF b \in marked THEN 1 ELSE z[b]]

\* for b in l[a+counter::a]: z[b] = 1
Mark(l, z, a, counter) ==
    LET marked == {b \in DOMAIN z : \E k \in DOMAIN Slice(l, a + counter, a) :
                                        Slice(l, a + counter, a)[k] = b}
    IN  [b \in DOMAIN z |-> IF b \in marked THEN 1 ELSE z[b]]

\* the loop `for a in l` from the position counter on: the dict z at its end
RECURSIVE Sieve(_, _, _)
Sieve(l, z, counter) ==
    IF counter >= Len(l) THEN z
    ELSE Sieve(l, Mark(l, z, l[counter + 1], counter), counter + 1)

\* what primes() gives back: a list, or a number when max is given
ReturnList(l) == [exc |-> "none", type |-> "list", list |-> l, num |-> 0]
ReturnInt(k) == [exc |-> "none", type |-> "int", list |-> <<>>, num |-> k]
RaiseIn(e) == [exc |-> e, type |-> "none", list |-> <<>>, num |-> 0]

\* primes(n, max) for an integer n and max False or True
primes(n, max) ==
    LET odd == [k \in 1..(IF n < 3 THEN 0 ELSE (n - 1) \div 2) |-> 2 * k + 1]
        z == Sieve(odd, [b \in {odd[k] : k \in DOMAIN odd} |-> 0], 0)
        kept == SelectSeq(odd, LAMBDA c : z[c] = 0)
        l == IF n >= 2 THEN <<2>> \o kept ELSE kept
    IN  IF ~max THEN ReturnList(l)
        ELSE IF Len(l) = 0 THEN RaiseIn("IndexError")
        ELSE ReturnInt(l[Len(l)])

VARIABLES
    ppc,       \* where the caller of primes() is
    pcall,     \* the arguments n and max of its call
    pres       \* what the call gave back

primesVars == <<ppc, pcall, pres>>

PrimesArgs(n, max) == [n |-> n, max |-> max]

PrimesIdle ==
    /\ ppc = "idle"
    /\ pcall = PrimesArgs(0, FALSE)
    /\ pres = RaiseIn("none")

\* primes(n, max) is called and returns or raises
PrimesCall(n, max) ==
    /\ ppc = "idle"
    /\ ppc' = "done"
    /\ pcall' = PrimesArgs(n, max)
    /\ pres' = primes(n, max)

PrimesFinish ==
    /\ ppc = "done"
    /\ ppc' = "idle"
    /\ pcall' = PrimesArgs(0, FALSE)
    /\ pres' = RaiseIn("none")

\* ---------------------------------------------------- bernoulli and summation
\* the largest n and the largest power x summation() is called with
MaxTerms == 19
MaxPower == 4

RECURSIVE Gcd(_, _)
Gcd(a, b) == IF b = 0 THEN a ELSE Gcd(b, a % b)

\* Fraction(n, d), d # 0: in lowest terms with a positive denominator
Fraction(n, d) ==
    LET g == Gcd(Abs(n), Abs(d))
    IN  IF d < 0 THEN Rat(-n \div g, -d \div g) ELSE Rat(n \div g, d \div g)

FracMul(a, b) == Fraction(a.n * b.n, a.d * b.d)
FracAdd(a, b) ==
    LET g == Gcd(a.d, b.d)
    IN  Fraction(a.n * (b.d \div g) + b.n * (a.d \div g), (a.d \div g) * b.d)
FracSub(a, b) == FracAdd(a, Rat(-b.n, b.d))

\* sum(t) of a list of fractions
RECURSIVE FracSum(_)
FracSum(t) == IF Len(t) = 0 THEN Rat(0, 1) ELSE FracAdd(Head(t), FracSum(Tail(t)))

\* the factor of t[i] in a row, taken with the column one further on
FactorShifted(row, i) == Fraction(row, row + 2 - i)

\* the factor Fraction(row, column) of t[i] in a row: column counts down
\* from row + 1 as i counts up from 0
Factor(row, i) == Fraction(row, row + 1 - i)

\* one pass of the loop over the rows: t[0..row-1] multiplied by their
\* factors, then t[row] = 1 - sum(t)
NextRow(t, row) ==
    LET scaled == [k \in DOMAIN t |->
                       IF k <= row THEN FracMul(t[k], Factor(row, k - 1)) ELSE t[k]]
    IN  [scaled EXCEPT ![row + 1] = FracSub(Rat(1, 1), FracSum(scaled))]

\* the list t after the rows row..n
RECURSIVE Triangle(_, _, _)
Triangle(t, row, n) == IF row > n THEN t ELSE Triangle(NextRow(t, row), row + 1, n)

ReturnRow(t) == [exc |-> "none", type |-> "list", list |-> t, num |-> Rat(0, 1)]
ReturnFraction(x) == [exc |-> "none", type |-> "Fraction", list |-> <<>>, num |-> x]

\* bernoulli(n, entireRow) for n >= 0
bernoulli(n, entireRow) ==
    LET t == Triangle([k \in 1..(n + 1) |-> Rat(0, 1)], 0, n)
    IN  IF entireRow THEN ReturnRow(t) ELSE ReturnFraction(t[Len(t)])

\* int(x) of a fraction: towards zero
int(x) == IF x.n < 0 THEN -((-x.n) \div x.d) ELSE x.n \div x.d

\* the loop of summation() from the position i on: the sum of
\* Bn[i] * n ** (r - i)
RECURSIVE Terms(_, _, _)
Terms(Bn, n, i) ==
    IF i >= Len(Bn) THEN Rat(0, 1)
    ELSE FracAdd(FracMul(Bn[i + 1], Rat(Pow(n, Len(Bn) - i), 1)), Terms(Bn, n, i + 1))

\* summation(n, x): round() of an int is that int
summation(n, x) == int(Terms(bernoulli(x, TRUE).list, n, 0))

VARIABLES
    spc,       \* where the caller is: "idle", "bernoulli", "summation"
    scall,     \* the arguments of its call
    srow,      \* what bernoulli() gave back
    sres       \* what summation() gave back

sumVars == <<spc, scall, srow, sres>>

SumArgs(n, x, entireRow) == [n |-> n, x |-> x, entireRow |-> entireRow]

SumIdle ==
    /\ spc = "idle"
    /\ scall = SumArgs(0, 0, FALSE)
    /\ srow = ReturnRow(<<>>)
    /\ sres = 0

\* bernoulli(n, entireRow) is called
BernoulliCall(n, entireRow) ==
    /\ spc = "idle"
    /\ spc' = "bernoulli"
    /\ scall' = SumArgs(n, 0, entireRow)
    /\ srow' = bernoulli(n, entireRow)
    /\ sres' = 0

\* summation(n, x) is called: it calls bernoulli(x, entireRow=True)
SummationCall(n, x) ==
    /\ spc = "idle"
    /\ spc' = "summation"
    /\ scall' = SumArgs(n, x, TRUE)
    /\ srow' = bernoulli(x, TRUE)
    /\ sres' = summation(n, x)

SumFinish ==
    /\ spc \in {"bernoulli", "summation"}
    /\ spc' = "idle"
    /\ scall' = SumArgs(0, 0, FALSE)
    /\ srow' = ReturnRow(<<>>)
    /\ sres' = 0

\* ----------------------------------------------------------------- dateMath
\* the years of the dates dateMath() is called with, and the most years and
\* months it is asked to add or take away
FirstYear == 2016
YearSpan == 1
MaxShift == 2

\* a datetime.datetime at midnight
Date(y, m, d) == [year |-> y, month |-> m, day |-> d]

IsLeap(y) == (y % 4 = 0 /\ y % 100 # 0) \/ y % 400 = 0
DaysInMonth(y, m) ==
    IF m = 2 THEN (IF IsLeap(y) THEN 29 ELSE 28)
    ELSE IF m \in {4, 6, 9, 11} THEN 30 ELSE 31

ReturnDate(d) == [exc |-> "none", date |-> d]
RaiseDate(e) == [exc |-> e, date |-> Date(0, 0, 0)]

\* datetime.datetime(y, m, d): a ValueError for a year, month or day that
\* does not exist
datetime(y, m, d) ==
    IF y < 1 \/ y > 9999 \/ m < 1 \/ m > 12 \/ d < 1 \/ d > DaysInMonth(y, m)
    THEN RaiseDate("ValueError")
    ELSE ReturnDate(Date(y, m, d))

\* date(date1, month, day) with a month given: the first of the month when
\* day is 0 (False)
date(date1, month, day) ==
    IF day = 0 THEN datetime(date1, month, 1) ELSE datetime(date1, month, day)

\* the day after and the day before a date
Tomorrow(d) ==
    IF d.day < DaysInMonth(d.year, d.month) THEN Date(d.year, d.month, d.day + 1)
    ELSE IF d.month < 12 THEN Date(d.year, d.month + 1, 1)
    ELSE Date(d.year + 1, 1, 1)
Yesterday(d) ==
    IF d.day > 1 THEN Date(d.year, d.month, d.day - 1)
    ELSE IF d.month > 1 THEN Date(d.year, d.month - 1, DaysInMonth(d.year, d.month - 1))
    ELSE Date(d.year - 1, 12, 31)

\* d + datetime.timedelta(days = n)
RECURSIVE PlusDays(_, _)
PlusDays(d, n) ==
    IF n = 0 THEN d
    ELSE IF n > 0 THEN PlusDays(Tomorrow(d), n - 1)
    ELSE PlusDays(Yesterday(d), n + 1)

\* dateMath(date1, years, months, weeks, days) for a datetime date1.  The
\* year and month are worked out in twelfths: end_date is total / 12, nwYr
\* its floor and nwMo the twelfths left over, plus 1.
dateMath(date1, years, months, weeks, days) ==
    LET total == 12 * date1.year + (date1.month - 1) + 12 * years + months
        nwYr == total \div 12
        nwMo == (total % 12) + 1
        made == date(nwYr, nwMo, date1.day)
    IN  IF made.exc # "none" THEN made
        ELSE ReturnDate(PlusDays(made.date, days + 7 * weeks))

VARIABLES
    dpc,       \* where the caller of dateMath() is
    dcall,     \* the arguments of its call
    dres       \* what the call gave back

dateVars == <<dpc, dcall, dres>>

DateArgs(date1, years, months, weeks, days) ==
    [date1 |-> date1, years |-> years, months |-> months, weeks |-> weeks,
     days |-> days]

\* the dates given: the first day and the last days of every month
StartDates ==
    {x \in {Date(y, m, d) : y \in FirstYear..(FirstYear + YearSpan), m \in 1..12,
                             d \in {1, 28, 29, 30, 31}} :
         x.day <= DaysInMonth(x.year, x.month)}

DateIdle ==
    /\ dpc = "idle"
    /\ dcall = DateArgs(Date(0, 0, 0), 0, 0, 0, 0)
    /\ dres = RaiseDate("none")

\* dateMath is called and returns or raises
DateMathCall(date1, years, months, weeks, days) ==
    /\ dpc = "idle"
    /\ dpc' = "done"
    /\ dcall' = DateArgs(date1, years, months, weeks, days)
    /\ dres' = dateMath(date1, years, months, weeks, days)

DateMathFinish ==
    /\ dpc = "done"
    /\ dpc' = "idle"
    /\ dcall' = DateArgs(Date(0, 0, 0), 0, 0, 0, 0)
    /\ dres' = RaiseDate("none")

\* ----------------------------------------------------------- specifications
vars == <<solveVars, ratesVars, tagVars, solveTVars, moneyVars, primesVars, sumVars,
          dateVars>>

Init ==
    /\ SolveIdle /\ RatesIdle /\ TagIdle /\ SolveTIdle /\ MoneyIdle /\ PrimesIdle
    /\ SumIdle /\ DateIdle

\* what the calls of one function leave alone
exceptSolveR == <<ratesVars, tagVars, solveTVars, moneyVars, primesVars, sumVars,
                 dateVars>>
exceptRates == <<solveVars, tagVars, solveTVars, moneyVars, primesVars, sumVars,
                 dateVars>>
exceptTag == <<solveVars, ratesVars, solveTVars, moneyVars, primesVars, sumVars,
                 dateVars>>
exceptSolveT == <<solveVars, ratesVars, tagVars, moneyVars, primesVars, sumVars,
                 dateVars>>
exceptMoney == <<solveVars, ratesVars, tagVars, solveTVars, primesVars, sumVars,
                 dateVars>>
exceptPrimes == <<solveVars, ratesVars, tagVars, solveTVars, moneyVars, sumVars,
                 dateVars>>
exceptDate == <<solveVars, ratesVars, tagVars, solveTVars, moneyVars, primesVars,
               sumVars>>
exceptSum == <<solveVars, ratesVars, tagVars, solveTVars, moneyVars, primesVars,
                 dateVars>>

NextSolveR ==
    \/ (pc = "idle" /\ \E a \in Calls : Call(a)) /\ UNCHANGED exceptSolveR
    \/ NoPayment /\ UNCHANGED exceptSolveR
    \/ Assemble /\ UNCHANGED exceptSolveR
    \/ FindRoots /\ UNCHANGED exceptSolveR
    \/ SelectRoot /\ UNCHANGED exceptSolveR
    \/ DegenerateTest /\ UNCHANGED exceptSolveR
    \/ (pc = "solved" /\ \E o \in SolveOpts : Convert(o.get, o.q_per_t))
           /\ UNCHANGED exceptSolveR
    \/ Finish /\ UNCHANGED exceptSolveR

NextRates ==
    \/ (rpc = "idle" /\ \E c \in RatesCalls : RatesCall(c.r, c.r_is, c.get, c.q_per_t))
           /\ UNCHANGED exceptRates
    \/ RatesFull /\ UNCHANGED exceptRates
    \/ RatesBack /\ UNCHANGED exceptRates
    \/ RatesPlain /\ UNCHANGED exceptRates
    \/ RatesFinish /\ UNCHANGED exceptRates

NextTag ==
    (\E x \in TagInputs : Normalize(x)) /\ UNCHANGED exceptTag

NextSolveT ==
    \/ (tpc = "idle" /\ \E c \in SolveTCalls : SolveTCall(c)) /\ UNCHANGED exceptSolveT
    \/ SolveTFinish /\ UNCHANGED exceptSolveT

NextMoney ==
    \/ (mpc = "idle" /\ \E c \in MoneyCalls : PvCall(c)) /\ UNCHANGED exceptMoney
    \/ (mpc = "idle" /\ \E c \in MoneyCalls : FvCall(c)) /\ UNCHANGED exceptMoney
    \/ MoneyFinish /\ UNCHANGED exceptMoney

NextPrimes ==
    \/ (ppc = "idle" /\ \E n \in 0..MaxN, max \in BOOLEAN : PrimesCall(n, max))
           /\ UNCHANGED exceptPrimes
    \/ PrimesFinish /\ UNCHANGED exceptPrimes

NextSum ==
    \/ (spc = "idle" /\ \E n \in 0..MaxPower, entireRow \in BOOLEAN :
                             BernoulliCall(n, entireRow))
           /\ UNCHANGED exceptSum
    \/ (spc = "idle" /\ \E n \in 0..MaxTerms, x \in 0..MaxPower : SummationCall(n, x))
           /\ UNCHANGED exceptSum
    \/ SumFinish /\ UNCHANGED exceptSum

NextDate ==
    \/ (dpc = "idle" /\ \E date1 \in StartDates, years \in -1..1,
                            months \in -MaxShift..MaxShift, weeks \in 0..1,
                            days \in -1..1 :
                             DateMathCall(date1, years, months, weeks, days))
           /\ UNCHANGED exceptDate
    \/ DateMathFinish /\ UNCHANGED exceptDate

SpecSolveR == Init /\ [][NextSolveR]_vars
SpecRates == Init /\ [][NextRates]_vars
SpecTag == Init /\ [][NextTag]_vars
SpecSolveT == Init /\ [][NextSolveT]_vars
SpecMoney == Init /\ [][NextMoney]_vars
SpecPrimes == Init /\ [][NextPrimes]_vars
SpecSum == Init /\ [][NextSum]_vars
SpecDate == Init /\ [][NextDate]_vars

\* -------------------------------------------------------------- properties
\* C1: once solve_r has assembled the cash-flow sequence of a call with a
\* payment stream, the sequence is the payment list (a one-element list for a
\* scalar q) repeated t times end to end when t is given, with -pv as a new
\* first element (annuity_due false) or pv subtracted from the first element
\* (annuity_due true), and with fv subtracted from the last element
\* (annuity_due false) or -fv as a new last element (annuity_due true); pv
\* and fv enter once, whatever t is.
C1_Assembly ==
    pc \in {"assembled", "rooted", "selected"} =>
        LET pay == IF args.q.isList THEN args.q.list ELSE <<args.q.num>>
            n == Len(pay)
            m == IF args.t = 0 THEN n ELSE n * args.t
            front == IF args.pv # 0 /\ ~args.annuity_due THEN 1 ELSE 0
            back == IF args.fv # 0 /\ args.annuity_due THEN 1 ELSE 0
            L == front + m + back
            core(k) == IF k <= front THEN -args.pv
                       ELSE IF k > front + m THEN -args.fv
                       ELSE pay[((k - front - 1) % n) + 1]
            less(k) == (IF k = 1 /\ args.pv # 0 /\ args.annuity_due THEN args.pv ELSE 0)
                       + (IF k = L /\ args.fv # 0 /\ ~args.annuity_due THEN args.fv ELSE 0)
        IN  /\ Len(q) = L
            /\ \A k \in 1..L : q[k] = core(k) - less(k)

\* a one-payment list repeated twice, pv taken off the first payment and -fv
\* added at the end
C1_AssembledDue ==
    /\ pc = "assembled"
    /\ args.q.isList /\ Len(args.q.list) = 1
    /\ args.t = 2 /\ args.annuity_due
    /\ args.pv # 0 /\ args.fv # 0
    /\ q = <<args.q.list[1] - args.pv, args.q.list[1], -args.fv>>

\* C2: whenever no element of the assembled sequence is negative, or none is
\* positive (zeros included), the rate solve_r has solved is 0.
C2_DegenerateIsZero ==
    (/\ pc = "solved"
     /\ ~NoPayments(args.q)
     /\ \/ \A k \in DOMAIN q : q[k] >= 0
        \/ \A k \in DOMAIN q : q[k] <= 0)
    => r.n = 0

\* C3 (as amended): solve_r(pv=100, fv=110, t=1) with no payment stream
\* returns the interest rate i = 0.10.
C3_ExampleAmended ==
    (/\ pc = "returned"
     /\ args = Args(100, NumQ(0), 1, 110, FALSE)
     /\ opts.q_per_t.n = 0
     /\ result.type = "dict")
    => result.dict[KeyI] * 10 = Unit

\* C3 (as written): solve_r(pv=-100, fv=110, t=1) with no payment stream
\* returns the interest rate i = 0.10.
C3_ExampleAsWritten ==
    (/\ pc = "returned"
     /\ args = Args(-100, NumQ(0), 1, 110, FALSE)
     /\ opts.q_per_t.n = 0
     /\ result.type = "dict")
    => result.dict[KeyI] * 10 = Unit

\* the call with pv = 100 has returned its bundle
C3_ExampleReturned ==
    /\ pc = "returned"
    /\ args = Args(100, NumQ(0), 1, 110, FALSE)
    /\ opts = NoOpts
    /\ result.type = "dict"
    /\ result.dict[KeyI] * 10 = Unit

\* C4: with no payment stream and t = 1 the rate solve_r has solved is
\* fv/pv - 1, where an absent pv counts as 1 and an absent fv counts as 1.
C4_ClosedForm ==
    (pc = "solved" /\ NoPayments(args.q) /\ args.t = 1) =>
        LET pv1 == IF args.pv = 0 THEN 1 ELSE args.pv
            fv1 == IF args.fv = 0 THEN 1 ELSE args.fv
        IN  r.d # 0 /\ (r.n + r.d) * pv1 = fv1 * r.d

\* pv = 2 and fv absent: the rate is 1/2 - 1
C4_HalfWithDefault ==
    /\ pc = "solved"
    /\ NoPayments(args.q) /\ args.t = 1
    /\ args.pv = 2 /\ args.fv = 0
    /\ r.d # 0 /\ 2 * r.n = -r.d

\* C5: on the payment-stream path the list real holds exactly the roots of
\* type mpf that the root finder returned (the others are dropped), and when
\* there is one, and the sequence is not of one sign, the solved rate is the
\* largest of them minus one.
C5_LargestRealRoot ==
    (pc \in {"selected", "solved"} /\ ~NoPayments(args.q)) =>
        LET mpf == {k \in DOMAIN roots : roots[k].type = "mpf"}
            mixed == (\E k \in DOMAIN q : q[k] <= 0) /\ (\E k \in DOMAIN q : q[k] >= 0)
        IN  mpf # {} =>
                /\ Len(real) = Cardinality(mpf)
                /\ \A k \in mpf : \E j \in DOMAIN real : real[j] = roots[k].val
                /\ \A j \in DOMAIN real : \E k \in mpf : real[j] = roots[k].val
                /\ (pc = "selected" \/ mixed) =>
                       \E k \in mpf :
                           /\ \A j \in mpf : roots[j].val <= roots[k].val
                           /\ r.d # 0
                           /\ r.n * RootScale = (roots[k].val - RootScale) * r.d

\* a sequence with payments of both signs whose polynomial has real and
\* non-real roots, solved to a rate that is not 0
C5_MixedRoots ==
    /\ pc = "solved"
    /\ ~NoPayments(args.q)
    /\ \E k \in DOMAIN roots : roots[k].type = "mpf"
    /\ \E k \in DOMAIN roots : roots[k].type = "mpc"
    /\ \E k \in DOMAIN q : q[k] < 0
    /\ \E k \in DOMAIN q : q[k] > 0
    /\ r.n # 0

\* C6: on the payment-stream path, when none of the roots the root finder
\* returned is real, the list real is the sentinel [1] and the rate is 0.
C6_NoRealRoot ==
    (/\ pc \in {"selected", "solved"}
     /\ ~NoPayments(args.q)
     /\ \A k \in DOMAIN roots : roots[k].type # "mpf")
    => real = <<RootScale>> /\ r.n = 0

\* two non-real roots and no real one
C6_OnlyComplexRoots ==
    /\ pc = "selected"
    /\ Len(roots) = 2
    /\ \A k \in DOMAIN roots : roots[k].type = "mpc"
    /\ real = <<RootScale>>
    /\ r.n = 0

\* C7 (as amended): get_rType maps the code, the full name and the prefixes
\* of a rate kind, in any letter case, to the key of the kind, except the full
\* name discount-factor, which it maps to d.
C7_TagsAmended ==
    \A key \in Keys :
        tagIn \in SpellingStrings(key) =>
            tagOut = IF tagIn \in NameStrings(KeyV) THEN KeyD ELSE key

\* C7 (as written): get_rType maps the code, the full name and the prefixes
\* of a rate kind, in any letter case, to the key of the kind.
C7_TagsAsWritten ==
    \A key \in Keys : tagIn \in SpellingStrings(key) => tagOut = key

\* discount-factor is normalised to d
C7_DiscountFactorIsD == tagIn = NameV /\ tagOut = KeyD

\* C8 (as amended): rates() called with a field selector that is the code,
\* the full name or a prefix of a kind returns the float that is the entry of
\* that kind in the bundle the same call returns without a selector, except
\* for the full name discount-factor, for which it returns the entry d.
C8_FieldAmended ==
    (rpc = "compared" /\ rfull.type = "dict") =>
        \A key \in Keys :
            rcall.get \in SpellingTags(key) =>
                rres = ReturnNum(rfull.dict[IF Str(rcall.get) \in NameStrings(KeyV)
                                            THEN KeyD ELSE key])

\* C8 (as written): rates() called with a field selector that is the code,
\* the full name or a prefix of a kind returns the float that is the entry of
\* that kind in the bundle the same call returns without a selector.
C8_FieldAsWritten ==
    (rpc = "compared" /\ rfull.type = "dict") =>
        \A key \in Keys :
            rcall.get \in SpellingTags(key) => rres = ReturnNum(rfull.dict[key])

\* the selector discount-factor gave the entry d of a bundle whose d and v
\* differ
C8_DiscountFactorGivesD ==
    /\ rpc = "compared"
    /\ rfull.type = "dict"
    /\ rcall.get = StrTag(NameV)
    /\ rres = ReturnNum(rfull.dict[KeyD])
    /\ rfull.dict[KeyD] # rfull.dict[KeyV]

\* C9: for an interest rate i > -1, rates(i) returns a bundle whose d is
\* i/(1+i) rounded to the nearest unit of the last decimal place kept, and
\* whose v is 1 minus that d.
C9_DiscountOfInterest ==
    (/\ rpc = "called"
     /\ rcall.r_is = NoTag /\ rcall.get = NoTag /\ rcall.q_per_t.n = 0
     /\ rcall.r \in RateInputs /\ rcall.r.n > -rcall.r.d)
    => /\ rres.type = "dict"
       /\ LET i == rcall.r
              d == rres.dict[KeyD]
          IN  /\ 2 * Abs(d * (i.n + i.d) - i.n * Unit) <= i.n + i.d
              /\ rres.dict[KeyV] = Unit - d

\* rates(0.5): d is a third and v two thirds, to the last place
C9_HalfIsAThird ==
    /\ rpc = "called"
    /\ rcall = RatesArgs(Rat(5, 10), NoTag, NoTag, Rat(0, 1))
    /\ rres.type = "dict"
    /\ rres.dict[KeyD] = Unit \div 3
    /\ rres.dict[KeyV] = Unit - (Unit \div 3)

\* C10 (as amended): for an interest rate i > -1, rates(rates(i)['d'], 'd')
\* returns an i that differs from the one given by at most (1+i)^2 units of
\* the last decimal place kept, and by at most one unit when i <= 0.
C10_RoundTripAmended ==
    (/\ rpc = "back"
     /\ rcall.r_is = NoTag /\ rcall.get = NoTag /\ rcall.q_per_t.n = 0
     /\ rcall.r \in RateInputs /\ rcall.r.n > -rcall.r.d)
    => /\ rback.type = "dict"
       /\ LET i == rcall.r
              s == i.n + i.d
              far == Abs(rback.dict[KeyI] * i.d - i.n * Unit)
          IN  far * i.d <= (IF s > i.d THEN s * s ELSE i.d * i.d)

\* C10 (as written): for an interest rate i > -1, rates(rates(i)['d'], 'd')
\* returns an i that differs from the one given by at most one unit of the
\* last decimal place kept.
C10_RoundTripAsWritten ==
    (/\ rpc = "back"
     /\ rcall.r_is = NoTag /\ rcall.get = NoTag /\ rcall.q_per_t.n = 0
     /\ rcall.r \in RateInputs /\ rcall.r.n > -rcall.r.d)
    => /\ rback.type = "dict"
       /\ Abs(rback.dict[KeyI] * rcall.r.d - rcall.r.n * Unit) <= rcall.r.d

\* i = 2 comes back three units of the last place too large
C10_TwoComesBackLarger ==
    /\ rpc = "back"
    /\ rcall = RatesArgs(Rat(20, 10), NoTag, NoTag, Rat(0, 1))
    /\ rback.type = "dict"
    /\ rback.dict[KeyI] = 2 * Unit + 3

\* C11: rates() called with a frequency q_per_t gives what rates() gives for
\* the interest rate (1 + i) ** (1 / q_per_t) - 1 passed with no other
\* argument, i being the rounded entry i of the bundle the call gives without
\* the frequency, whatever the kind of the rate passed; a complex power ends
\* in the TypeError of exp().
C11_Rescaled ==
    (/\ rpc = "plain"
     /\ rcall.get = NoTag
     /\ rplain.type = "dict")
    => LET pw == FloatPow(Unit + rplain.dict[KeyI], rcall.q_per_t.d, rcall.q_per_t.n)
       IN  IF pw.exc # "none" THEN rres.exc = pw.exc
           ELSE IF pw.cx THEN rres.exc = "TypeError"
           ELSE /\ rres = rates(Rat(pw.val - Unit, Unit), NoTag, NoTag, Rat(0, 1))
                /\ rres.type = "dict" =>
                       /\ rres.dict[KeyI] = pw.val - Unit
                       /\ 2 * Abs(rres.dict[KeyD] * pw.val - (pw.val - Unit) * Unit) <= Abs(pw.val)
                       /\ rres.dict[KeyV] = Unit - rres.dict[KeyD]

\* the discount rate 0.5 at the frequency 2: i = 1 becomes the square root of
\* 2, less 1
C11_HalfDiscountTwice ==
    /\ rpc = "plain"
    /\ rcall = RatesArgs(Rat(5, 10), StrTag(KeyD), NoTag, Rat(2, 1))
    /\ rplain.type = "dict" /\ rplain.dict[KeyI] = Unit
    /\ rres.type = "dict"
    /\ Abs((Unit + rres.dict[KeyI]) * (Unit + rres.dict[KeyI]) - 2 * Unit * Unit) <= 3 * Unit

\* C12: solve_r called with the frequency q_per_t = k returns what rates()
\* returns for the solved rate r and the frequency 1/k, so that the interest
\* rate returned is (1 + r) ** k - 1 (stated for k = 2: the square of 1 + r,
\* to the nearest unit, less 1).
C12_Compounded ==
    (/\ pc = "returned"
     /\ opts.q_per_t.n # 0
     /\ opts.get = NoTag)
    => /\ result = rates(r, NoTag, NoTag, Rat(opts.q_per_t.d, opts.q_per_t.n))
       /\ opts.q_per_t = Rat(2, 1) =>
              LET base == Unit + Round10(r)
              IN  2 * Abs((Unit + result.dict[KeyI]) * Unit - base * base) <= Unit

\* pv = 1 and fv = 2 over one period at the frequency 2: r = 1 is returned as
\* i = 3
C12_DoubledTwice ==
    /\ pc = "returned"
    /\ args = Args(1, NumQ(0), 1, 2, FALSE)
    /\ opts = [get |-> NoTag, q_per_t |-> Rat(2, 1)]
    /\ result.type = "dict"
    /\ result.dict[KeyI] = 3 * Unit

\* C13: a list passed to solve_r as q has, once the call has worked on it,
\* the length and the elements it was passed with.
C13_ListUnchanged ==
    (args.q.isList /\ pc \notin {"idle", "called"}) => callerQ = args.q.list

C16_Balances ==
    (/\ pc \in {"solved", "returned"}
     /\ ~NoPayments(args.q)
     /\ \E k \in DOMAIN q : q[k] < 0
     /\ \E k \in DOMAIN q : q[k] > 0
     /\ \E k \in DOMAIN roots : roots[k].type = "mpf")
    => /\ r.d = RootScale
       /\ LET n == r.n + RootScale
          IN  \/ PolyAt(q, n) = 0
              \/ Sign(PolyAt(q, n)) * Sign(PolyAt(q, n + 1)) < 0
       /\ args = LoanCall =>
              /\ r.n > 0
              /\ r.n * 10 <= r.d /\ (r.n + 1) * 10 > r.d
              /\ (pc = "returned" /\ opts = NoOpts) => result.dict[KeyI] = Round10(r)

\* the loan is solved to 10%: 1000 * 1.1^4 = 100 * 1.1^3 + 100 * 1.1^2
\* + 100 * 1.1 + 1100
C16_LoanAtTenPercent ==
    /\ pc = "returned"
    /\ args = LoanCall
    /\ opts = NoOpts
    /\ q = <<-1000, 100, 100, 100, 1100>>
    /\ r = Rat(1, 10)
    /\ 1000 * 11 * 11 * 11 * 11 = 100 * 11 * 11 * 11 * 10 + 100 * 11 * 11 * 100
                                      + 100 * 11 * 1000 + 1100 * 10000
    /\ result.type = "dict"
    /\ result.dict[KeyI] * 10 = Unit

\* C17: every call of solve_t with pv, fv and q all supplied (each nonzero)
\* that returns, returns 0.  The code returns 1.0 when pv equals fv.
C17_ZeroWithAllThree ==
    (tpc = "done" /\ tcall.pv # 0 /\ tcall.fv # 0 /\ tcall.q # 0
         /\ tres.exc = "none")
        => tres.num = 0

\* C18: a call of pv or fv that returns, returns its value rounded to the
\* decimal places of the precision argument when that is 0 to 16, to 16 places
\* when it is larger, and to 2 places when precision is omitted.  The code
\* rounds to 2 places when precision is 0, and to 16 whatever the precision
\* when neither q nor the other value is given.
C18_RoundedToPrecision ==
    (mpc \in {"pv", "fv"} /\ mres.exc = "none")
        => mres.num = round(mraw.num,
                            IF mcall.precision.given
                            THEN Min(mcall.precision.n, MaxPlaces)
                            ELSE MoneyPlaces)

\* C19: for every n >= 2, primes(n) returns the prime numbers less than or
\* equal to n in ascending order, no composite among them and no prime
\* missing, and primes(n, max=True) returns the largest of them.
C19_PrimesUpTo ==
    (ppc = "done" /\ pcall.n >= 2) =>
        LET IsPrime(k) == k >= 2 /\ \A d \in 2..(k - 1) : k % d # 0
            upTo == {k \in 2..pcall.n : IsPrime(k)}
            l == pres.list
        IN  IF pcall.max
            THEN pres.type = "int" /\ pres.num \in upTo
                     /\ \A k \in upTo : k <= pres.num
            ELSE /\ pres.type = "list"
                 /\ {l[k] : k \in DOMAIN l} = upTo
                 /\ \A j, k \in DOMAIN l : j < k => l[j] < l[k]

\* primes(49) has returned the fifteen primes up to 47, and neither 9, 25
\* nor 49
C19_UpToFortyNine ==
    /\ ppc = "done" /\ pcall.n = 49 /\ ~pcall.max
    /\ Len(pres.list) = 15
    /\ pres.list[1] = 2 /\ pres.list[15] = 47
    /\ \A k \in DOMAIN pres.list : pres.list[k] \notin {9, 25, 49}

\* C20: summation(n, x) returns the sum of k^x for k from 1 to n, computed
\* from the row of x + 1 Faulhaber coefficients that
\* bernoulli(x, entireRow=True) returns, which add up to 1.
C20_SumOfPowers ==
    (spc = "summation") =>
        LET S[m \in 0..scall.n] == IF m = 0 THEN 0 ELSE S[m - 1] + Pow(m, scall.x)
        IN  /\ sres = S[scall.n]
            /\ Len(srow.list) = scall.x + 1
            /\ FracSum(srow.list) = Rat(1, 1)

\* summation(10, 3) has returned 3025 from the row 1/4, 1/2, 1/4, 0
C20_TenCubes ==
    /\ spc = "summation" /\ scall.n = 10 /\ scall.x = 3
    /\ srow.list = <<Rat(1, 4), Rat(1, 2), Rat(1, 4), Rat(0, 1)>>
    /\ sres = 3025

\* C21: when dateMath adds years and months to a date whose day of month
\* does not exist in the target month, it returns the last day of the target
\* month (then moved by the weeks and days) instead of failing.  The code
\* ends in the ValueError of the datetime constructor.
C21_LastDayOfTargetMonth ==
    LET total == 12 * dcall.date1.year + (dcall.date1.month - 1)
                     + 12 * dcall.years + dcall.months
        y == total \div 12
        m == (total % 12) + 1
    IN  (dpc = "done" /\ dcall.date1.day > DaysInMonth(y, m)) =>
            /\ dres.exc = "none"
            /\ dres.date = PlusDays(Date(y, m, DaysInMonth(y, m)),
                                    dcall.days + 7 * dcall.weeks)

\* C22 (as the code has it): in solve_r a pv, fv or q of 0 is the omitted
\* argument (False == 0).  q = 0 takes the no-payment path, where a pv or fv
\* of 0 counts as 1.  On the payment-stream path a pv of 0 puts nothing in
\* front and an fv of 0 nothing at the end, but the assembled sequence is
\* shorter than for a nonzero value only where that value becomes an element
\* of its own: by one for pv when annuity_due is false and for fv when it is
\* true.  Otherwise the nonzero value is taken off the first or the last
\* payment and the sequence has the same length.
C22_ZeroAmended ==
    /\ NoPayments(args.q) => pc \notin {"assembled", "rooted", "selected"}
    /\ (pc = "solved" /\ NoPayments(args.q) /\ args.pv = 0) =>
           r = ClosedForm(1, IF args.fv = 0 THEN 1 ELSE args.fv, args.t)
    /\ (pc = "solved" /\ NoPayments(args.q) /\ args.fv = 0) =>
           r = ClosedForm(IF args.pv = 0 THEN 1 ELSE args.pv, 1, args.t)
    /\ (pc = "assembled" /\ args.pv = 0) =>
           \A x \in Amounts \ {0} :
               LET other == Assembled([args EXCEPT !.pv = x])
               IN  other.exc = "none" =>
                       Len(other.q) = Len(q) + (IF args.annuity_due THEN 0 ELSE 1)
    /\ (pc = "assembled" /\ args.fv = 0) =>
           \A x \in Amounts \ {0} :
               LET other == Assembled([args EXCEPT !.fv = x])
               IN  other.exc = "none" =>
                       Len(other.q) = Len(q) + (IF args.annuity_due THEN 1 ELSE 0)

\* C22 as written: with pv = 0, and with fv = 0, the assembled sequence is
\* shorter than for any nonzero value.
C22_ZeroAsWritten ==
    /\ (pc = "assembled" /\ args.pv = 0) =>
           \A x \in Amounts \ {0} :
               LET other == Assembled([args EXCEPT !.pv = x])
               IN  other.exc = "none" => Len(other.q) > Len(q)
    /\ (pc = "assembled" /\ args.fv = 0) =>
           \A x \in Amounts \ {0} :
               LET other == Assembled([args EXCEPT !.fv = x])
               IN  other.exc = "none" => Len(other.q) > Len(q)

\* an annuity due of two payments with pv = 0: with pv = 1 the sequence has
\* two elements as well
C22_DueWithoutPv ==
    /\ pc = "assembled"
    /\ args.pv = 0 /\ args.annuity_due /\ args.q.isList
    /\ Len(q) = 2
    /\ Assembled([args EXCEPT !.pv = 1]).exc = "none"
    /\ Len(Assembled([args EXCEPT !.pv = 1]).q) = 2

\* C23: a non-empty tag that get_rType does not turn into one of the four
\* keys is returned unchanged.  Given as the rate kind of rates() it has the
\* call do what it does for a force of interest, the tag causing no error:
\* the call returns the bundle for every rate above -1 when no frequency is
\* given.  Given as the field selector it has the call end in the KeyError
\* of the bundle lookup, returning nothing, wherever the bundle itself is
\* worked out.
C23_UnknownTag ==
    LET Unknown(tag) == Truthy(tag) /\ get_rType(Str(tag)) \notin Keys
    IN  rpc = "called" =>
            /\ Unknown(rcall.r_is) =>
                   /\ get_rType(Str(rcall.r_is)) = Str(rcall.r_is)
                   /\ rres = rates(rcall.r, StrTag(KeyDelta), rcall.get, rcall.q_per_t)
                   /\ (rcall.r.n + rcall.r.d > 0 /\ ~Truthy(rcall.get)
                           /\ rcall.q_per_t.n = 0) =>
                          (rres.exc = "none" /\ rres.type = "dict")
            /\ Unknown(rcall.get) =>
                   /\ get_rType(Str(rcall.get)) = Str(rcall.get)
                   /\ rres.exc # "none" /\ rres.type = "none"
                   /\ rates(rcall.r, rcall.r_is, NoTag, rcall.q_per_t).exc = "none"
                          => rres.exc = "KeyError"

\* rates(1, 'x') has returned the bundle of the force of interest 1, and
\* rates(1, get='x') has ended in a KeyError
C23_KindXIsDelta ==
    /\ rpc = "called"
    /\ rcall.r = Rat(RateGrid, RateGrid) /\ rcall.q_per_t.n = 0
    /\ \/ /\ rcall.r_is = StrTag(<<"x">>) /\ rcall.get = NoTag
          /\ rres.type = "dict"
          /\ rres.dict[KeyDelta] = Unit /\ rres.dict[KeyI] < Unit
       \/ /\ rcall.r_is = NoTag /\ rcall.get = StrTag(<<"x">>)
          /\ rres.exc = "KeyError"

====
